---- MODULE Spec2Model ----
(***************************************************************************)
(* Model of the collaborative-filtering recommendation service of          *)
(* backend/app/services/recommendation_service.py: the module globals, the *)
(* build load_recommendation_data and the query get_book_recommendations.  *)
(*                                                                         *)
(* Data frames are sequences of records, numpy arrays are sequences, and   *)
(* None is the empty tuple around an optional value (None == <<>>, a       *)
(* loaded value v is <<v>>).  Floating-point numbers are fixed-point       *)
(* integers in units of 1/Scale.  Array positions are 1-based here, so the *)
(* code's position p is p+1 in the model.                                  *)
(***************************************************************************)
EXTENDS Integers, Sequences, FiniteSets, TLC

(***************************************************************************)
(* Bounds of the model.                                                    *)
(***************************************************************************)
MaxBuilds == 2
MaxQueries == 1
MaxRequests == 3

(***************************************************************************)
(* Number representation.                                                  *)
(***************************************************************************)
Scale == 1000
Prec == 100

Fx(n) == n * Scale

Abs(x) == IF x < 0 THEN -x ELSE x

Sign(x) == IF x < 0 THEN -1 ELSE IF x > 0 THEN 1 ELSE 0

Min(a, b) == IF a <= b THEN a ELSE b

RECURSIVE GCD(_, _)
GCD(a, b) == IF b = 0 THEN a ELSE GCD(b, a % b)

RECURSIVE ISqrtIn(_, _, _)
ISqrtIn(n, lo, hi) ==
    IF lo >= hi THEN lo
    ELSE LET mid == (lo + hi + 1) \div 2
         IN  IF mid * mid <= n THEN ISqrtIn(n, mid, hi) ELSE ISqrtIn(n, lo, mid - 1)

ISqrt(n) == ISqrtIn(n, 0, 46340)

(***************************************************************************)
(* Sequence helpers.                                                       *)
(***************************************************************************)
Range(s) == {s[i] : i \in 1..Len(s)}

Take(s, n) == IF n >= Len(s) THEN s ELSE SubSeq(s, 1, n)

Reverse(s) == [i \in 1..Len(s) |-> s[Len(s) + 1 - i]]

RECURSIVE SumSeq(_)
SumSeq(s) == IF Len(s) = 0 THEN 0 ELSE Head(s) + SumSeq(Tail(s))

RECURSIVE SortedSeq(_)
SortedSeq(S) ==
    IF S = {} THEN <<>>
    ELSE LET m == CHOOSE x \in S : \A y \in S : x <= y
         IN  <<m>> \o SortedSeq(S \ {m})

IndexOf(s, x) == CHOOSE i \in 1..Len(s) : s[i] = x

RECURSIVE Flatten(_)
Flatten(ss) == IF Len(ss) = 0 THEN <<>> ELSE Head(ss) \o Flatten(Tail(ss))

(***************************************************************************)
(* Optional values: None and a present value.                              *)
(***************************************************************************)
None == <<>>
Some(v) == <<v>>
IsNone(o) == o = <<>>
Val(o) == o[1]

(***************************************************************************)
(* The CSV files on disk.  An ISBN is a number whose order stands for the  *)
(* lexical order of the ISBN strings; a title is a tuple of characters.    *)
(* ratings1 with books1 is the three-user scenario U1=[8,6,0], U2=[9,7,5], *)
(* U3=[0,4,9]; some of its rows are repeated, two rows have rating 0 (one  *)
(* the only rating of ISBN 4), one names an unknown user and one an        *)
(* unknown ISBN.  ratings2 with books2                                     *)
(* has four users: user 4 rates like user 1 (same centered direction, same *)
(* top rating of ISBN 2), user 3 gives all its items the same rating, user *)
(* 2 rates ISBN 5 twice (4, then 6), user 5 has one joined row, and the    *)
(* first book of books2 has no rating; its first row is neither of the     *)
(* lowest user nor of the lowest ISBN.  ratings2 with books1 has 10 joined *)
(* rows, 8 of them of users with two or more rows.  ratings3 with books1   *)
(* is ten users with one row each, with books2 a single user with ten.     *)
(***************************************************************************)
Book(isbn, title) == [ISBN |-> isbn, Title |-> title]

Rating(u, isbn, r) == [User |-> u, ISBN |-> isbn, Rating |-> r]

BooksFiles ==
    [books1 |-> << Book(1, <<"A">>), Book(2, <<"B">>), Book(3, <<"C">>),
                   Book(4, <<"D", "c">>) >>,
     books2 |-> << Book(6, <<"A", "c">>), Book(5, <<"E">>), Book(2, <<"B">>),
                   Book(3, <<"C">>), Book(4, <<"D">>) >>]

RatingsFiles ==
    [ratings1 |-> << Rating(1, 1, 8), Rating(1, 2, 6), Rating(2, 1, 9),
                     Rating(1, 3, 0), Rating(2, 2, 7), Rating(2, 3, 5),
                     Rating(9, 1, 5), Rating(3, 2, 4), Rating(3, 3, 9),
                     Rating(1, 7, 5), Rating(1, 1, 8), Rating(2, 2, 7),
                     Rating(3, 3, 9), Rating(2, 4, 0) >>,
     ratings2 |-> << Rating(2, 3, 3), Rating(1, 2, 10), Rating(1, 3, 8),
                     Rating(2, 2, 9), Rating(2, 4, 7), Rating(2, 5, 4),
                     Rating(2, 5, 6), Rating(3, 4, 6), Rating(3, 5, 6),
                     Rating(4, 2, 10), Rating(4, 3, 6), Rating(2, 1, 5),
                     Rating(5, 1, 5), Rating(5, 5, 5) >>,
     ratings3 |-> << Rating(1, 1, 5), Rating(2, 1, 6), Rating(3, 1, 7),
                     Rating(4, 1, 8), Rating(5, 1, 9), Rating(6, 1, 5),
                     Rating(7, 1, 6), Rating(8, 1, 7), Rating(10, 1, 8),
                     Rating(11, 1, 9), Rating(1, 6, 7), Rating(1, 5, 9),
                     Rating(1, 6, 7), Rating(1, 5, 9), Rating(1, 6, 7),
                     Rating(1, 5, 9), Rating(1, 6, 7), Rating(1, 5, 9),
                     Rating(1, 6, 7), Rating(1, 5, 9) >>]

UsersFiles == [users1 |-> <<1, 2, 3, 4, 5, 6, 7, 8, 10, 11>>]

BooksPaths == {"books1", "books2"}
RatingsPaths == {"ratings1", "ratings2", "ratings3", "missing"}
UsersPaths == {"users1"}

NRowsDefault == 50000
NRowsChoices == {NRowsDefault}

FileExists(files, path) == path \in DOMAIN files

(* pd.read_csv(path, nrows=nrows): the first nrows rows of the file *)
ReadCsv(files, path, nrows) == Take(files[path], nrows)

(***************************************************************************)
(* DatasetJoiner: the data-frame operations of load_recommendation_data.   *)
(***************************************************************************)
PositiveRating(row) == row.Rating > 0

(* the rows of rating 0 kept *)
DropZeroRatings_Keep(ratings) == ratings

(* _ratings_data[_ratings_data["Book-Rating"] > 0] *)
DropZeroRatings(ratings) == SelectSeq(ratings, PositiveRating)

(* pd.merge(ratings, books, on="ISBN", how="inner"): one row per matching
   pair, in the order of the left rows *)
MergeBooks(ratings, books) ==
    LET Matches(r) ==
            LET Hit(b) == b.ISBN = r.ISBN
                hits == SelectSeq(books, Hit)
            IN  [i \in 1..Len(hits) |->
                    [User |-> r.User, ISBN |-> r.ISBN, Rating |-> r.Rating,
                     Title |-> hits[i].Title]]
    IN  Flatten([n \in 1..Len(ratings) |-> Matches(ratings[n])])

(* pd.merge(merged, users, on="User-ID", how="inner") *)
MergeUsers(merged, users) ==
    LET Matches(r) ==
            LET Hit(u) == u = r.User
                hits == SelectSeq(users, Hit)
            IN  [i \in 1..Len(hits) |-> r]
    IN  Flatten([n \in 1..Len(merged) |-> Matches(merged[n])])

MinRows == 10
min_user_ratings == 2
min_book_ratings == 1

(* the floor taken as inclusive *)
TooFewRows_Inclusive(merged_df) == Len(merged_df) <= MinRows

(* line 69: len(merged_df) < 10 *)
TooFewRows(merged_df) == Len(merged_df) < MinRows

CountUser(df, u) == Cardinality({i \in 1..Len(df) : df[i].User = u})

CountBook(df, b) == Cardinality({i \in 1..Len(df) : df[i].ISBN = b})

Users(df) == {df[i].User : i \in 1..Len(df)}

Isbns(df) == {df[i].ISBN : i \in 1..Len(df)}

(* the rows of the users with min_user_ratings rows or more, none when there
   is no such user *)
FilterUsers_NoFallback(merged_df) ==
    LET KeepUser(r) == CountUser(merged_df, r.User) >= min_user_ratings
    IN  SelectSeq(merged_df, KeepUser)

(* lines 77-88: the rows of the users with min_user_ratings rows or more,
   all rows when there is no such user *)
FilterUsers(merged_df) ==
    LET users_with_enough_ratings ==
            {u \in Users(merged_df) : CountUser(merged_df, u) >= min_user_ratings}
        KeepUser(r) == r.User \in users_with_enough_ratings
    IN  IF users_with_enough_ratings = {} THEN merged_df
        ELSE SelectSeq(merged_df, KeepUser)

(* lines 82, 90-101: skipped when no user had enough rows; else the rows of
   the books with min_book_ratings rows or more among the rows kept, all
   rows of merged_df when there is no such book *)
FilterBooks(filtered, merged_df) ==
    LET users_with_enough_ratings ==
            {u \in Users(merged_df) : CountUser(merged_df, u) >= min_user_ratings}
        books_with_enough_ratings ==
            {b \in Isbns(filtered) : CountBook(filtered, b) >= min_book_ratings}
        KeepBook(r) == r.ISBN \in books_with_enough_ratings
    IN  IF users_with_enough_ratings = {} THEN filtered
        ELSE IF books_with_enough_ratings = {} THEN merged_df
        ELSE SelectSeq(filtered, KeepBook)

(* the filtered rows kept however few they are *)
FloorFallback_Never(filtered, merged_df) == filtered

(* lines 107-110: fewer than 10 rows left, all rows of merged_df are used *)
FloorFallback(filtered, merged_df) ==
    IF Len(filtered) < MinRows THEN merged_df ELSE filtered

(* lines 77-110: the adaptive density filter with its fallbacks *)
DensityFilter(merged_df) ==
    FloorFallback(FilterBooks(FilterUsers(merged_df), merged_df), merged_df)

(***************************************************************************)
(* MatrixBuilder: pivot_table with the default aggregation (mean) and      *)
(* fill_value=0; rows and columns are the sorted distinct keys.            *)
(***************************************************************************)
PivotCell(df, u, b) ==
    LET rows == {i \in 1..Len(df) : df[i].User = u /\ df[i].ISBN = b}
        Pick(i) == IF i \in rows THEN df[i].Rating ELSE 0
        total == SumSeq([i \in 1..Len(df) |-> Pick(i)])
    IN  IF rows = {} THEN 0 ELSE (Fx(total)) \div Cardinality(rows)

PivotTable(df) ==
    LET index == SortedSeq(Users(df))
        columns == SortedSeq(Isbns(df))
    IN  [index |-> index,
         columns |-> columns,
         values |-> [i \in 1..Len(index) |->
                        [j \in 1..Len(columns) |-> PivotCell(df, index[i], columns[j])]]]

(* _user_book_matrix.to_numpy() *)
ToNumpy(ubm) == ubm.values

NumRows(m) == Len(m)

NumCols(m) == IF Len(m) = 0 THEN 0 ELSE Len(m[1])

(* _ratings_matrix.size == 0 or _ratings_matrix.shape[0] == 0 *)
MatrixEmpty(m) == NumRows(m) * NumCols(m) = 0 \/ NumRows(m) = 0

(***************************************************************************)
(* Normalizer.                                                             *)
(***************************************************************************)
RatedCount(row) == Cardinality({j \in 1..Len(row) : row[j] > 0})

RatedSum(row) == SumSeq([j \in 1..Len(row) |-> IF row[j] > 0 THEN row[j] ELSE 0])

(* np.mean(row[row > 0]), 0 for a row without ratings *)
UserMean(row) == IF RatedCount(row) > 0 THEN RatedSum(row) \div RatedCount(row) ELSE 0

UserMeans(m) == [i \in 1..Len(m) |-> UserMean(m[i])]

(* ratings_matrix_normalized[i][mask] -= _user_means[i] *)
Normalize(m, means) ==
    [i \in 1..Len(m) |->
        [j \in 1..Len(m[i]) |-> IF m[i][j] > 0 THEN m[i][j] - means[i] ELSE m[i][j]]]

(***************************************************************************)
(* SimilarityEngine: sklearn cosine_similarity.  The cosine does not       *)
(* depend on the length of the rows, so each row is first divided by the   *)
(* gcd of its entries to keep the products small.                          *)
(***************************************************************************)
RECURSIVE GcdSeq(_)
GcdSeq(s) == IF Len(s) = 0 THEN 0 ELSE GCD(Abs(Head(s)), GcdSeq(Tail(s)))

Direction(row) ==
    LET g == GcdSeq(row)
    IN  IF g = 0 THEN row ELSE [j \in 1..Len(row) |-> row[j] \div g]

Dot(a, b) == SumSeq([j \in 1..Len(a) |-> a[j] * b[j]])

Cosine(a, b) ==
    LET da == Direction(a)
        db == Direction(b)
        qa == Dot(da, da)
        qb == Dot(db, db)
        d == Dot(da, db)
    IN  IF qa = 0 \/ qb = 0 THEN 0
        ELSE Sign(d) * ((Abs(d) * Scale * Prec) \div ISqrt(qa * qb * Prec * Prec))

(* the cells above the diagonal alone, the rest left at 0 *)
CosineSimilarity_Upper(n) ==
    [i \in 1..Len(n) |-> [j \in 1..Len(n) |-> IF j > i THEN Cosine(n[i], n[j]) ELSE 0]]

(* line 146: cosine_similarity(user_book_matrix_normalized) *)
CosineSimilarity(n) == [i \in 1..Len(n) |-> [j \in 1..Len(n) |-> Cosine(n[i], n[j])]]

(* the degenerate case answered with a 1x1 array of zeros *)
UserSimilarity_Zeros(m, normalized) ==
    IF NumRows(m) < 2 THEN << <<0>> >> ELSE CosineSimilarity(normalized)

(* lines 141-146 *)
UserSimilarity(m, normalized) ==
    IF NumRows(m) < 2 THEN << <<Fx(1)>> >> ELSE CosineSimilarity(normalized)

(***************************************************************************)
(* Recommender: the array operations of get_book_recommendations.         *)
(***************************************************************************)
LowerChar(c) ==
    CASE c = "A" -> "a" [] c = "B" -> "b" [] c = "C" -> "c"
      [] c = "D" -> "d" [] c = "E" -> "e" [] OTHER -> c

Lower(str) == [i \in 1..Len(str) |-> LowerChar(str[i])]

(* str.contains(book_title, case=False, regex=False) *)
Contains(title, book_title) ==
    \E off \in 0..(Len(title) - Len(book_title)) :
        \A i \in 1..Len(book_title) :
            LowerChar(title[off + i]) = LowerChar(book_title[i])

(* the mask left out: every row of the catalog *)
MatchingBooks_All(books, book_title) == books

(* lines 195-199: _books_data[_books_data["Title"].str.contains(...)] *)
MatchingBooks(books, book_title) ==
    LET Match(b) == Contains(b.Title, book_title)
    IN  SelectSeq(books, Match)

(* the ISBN of the last matching row *)
TargetIsbn_Last(matching_books) == matching_books[Len(matching_books)].ISBN

(* line 207: target_isbn = matching_books.iloc[0]["ISBN"] *)
TargetIsbn(matching_books) == matching_books[1].ISBN

(* _ratings_matrix[:, book_col_idx] > 0, as the set of row positions *)
UsersWhoRated(m, col) == {i \in 1..Len(m) : m[i][col] > 0}

(* the last of the raters holding the highest rating *)
BestUserIdx_LastMax(m, col) ==
    LET raters == UsersWhoRated(m, col)
    IN  CHOOSE i \in raters :
            /\ \A j \in raters : m[j][col] <= m[i][col]
            /\ \A j \in raters : m[j][col] = m[i][col] => j <= i

(* the first rater in row order, whatever the rating *)
BestUserIdx_FirstRater(m, col) ==
    CHOOSE i \in UsersWhoRated(m, col) : \A j \in UsersWhoRated(m, col) : i <= j

(* np.where(users_who_rated)[0][np.argmax(user_ratings)]: the first of the
   raters holding the highest rating *)
BestUserIdx(m, col) ==
    LET raters == UsersWhoRated(m, col)
    IN  CHOOSE i \in raters :
            /\ \A j \in raters : m[j][col] <= m[i][col]
            /\ \A j \in raters : m[j][col] = m[i][col] => i <= j

(* similarity_scores[similarity_scores <= 0] = 0, on the copy of the row *)
ClipScores(row) == [i \in 1..Len(row) |-> IF row[i] <= 0 THEN 0 ELSE row[i]]

(* the clipping applied to the row of the global array itself *)
SimilarityAfterClip_InPlace(sim, best_user_idx) ==
    [sim EXCEPT ![best_user_idx] = ClipScores(sim[best_user_idx])]

(* the global array after lines 233-234: the row was copied, so the
   clipping does not reach _user_similarity *)
SimilarityAfterClip(sim, best_user_idx) == sim

(* np.argsort(a) with the default sort, which is not stable: every
   ascending order of the positions is a possible outcome *)
ArgSorts(a) ==
    {p \in Permutations(1..Len(a)) :
        \A i, j \in 1..Len(a) : i < j => a[p[i]] <= a[p[j]]}

(* the Python slice s[from:to] for 0 <= from, to *)
Slice(s, from, to) ==
    IF Min(to, Len(s)) <= from THEN <<>> ELSE SubSeq(s, from + 1, Min(to, Len(s)))

(* the first n positions of np.argsort(a)[::-1], for every outcome of the
   argsort: n distinct positions in descending order of their values, no
   position left out having a higher value than the last of them *)
ArgSortHeads(a, n) ==
    LET m == Min(n, Len(a))
    IN  {h \in [1..m -> 1..Len(a)] :
            /\ \A i, j \in 1..m : i < j => h[i] # h[j] /\ a[h[i]] >= a[h[j]]
            /\ \A p \in 1..Len(a) :
                   (\A i \in 1..m : h[i] # p) => \A i \in 1..m : a[h[i]] >= a[p]}

(* lines 237-240, for the positions 0..k of one outcome of the reversed
   argsort *)
SimilarUsers(similarity_scores, descending, k) ==
    LET Positive(i) == similarity_scores[i] > 0
    IN  SelectSeq(Slice(descending, 1, k + 1), Positive)

(* the similarities of the neighbors, not divided by their sum *)
Weights_Raw(similarity_scores, similar_users_indices) ==
    [n \in 1..Len(similar_users_indices) |->
        similarity_scores[similar_users_indices[n]]]

(* lines 248-249: weights / np.sum(weights) *)
Weights(similarity_scores, similar_users_indices) ==
    LET w == [n \in 1..Len(similar_users_indices) |->
                 similarity_scores[similar_users_indices[n]]]
    IN  [n \in 1..Len(w) |-> (w[n] * Scale) \div SumSeq(w)]

(* lines 251-254 *)
AvgBookRatings(m, similar_users_indices, weights) ==
    [j \in 1..NumCols(m) |->
        SumSeq([n \in 1..Len(similar_users_indices) |->
                   (m[similar_users_indices[n]][j] * weights[n]) \div Scale])]

(* the scores without the exclusion of the anchor's own items *)
ExcludeRated_Nothing(avg, anchor_row) == avg

(* lines 257-258 *)
ExcludeRated(avg, anchor_row) ==
    [j \in 1..Len(avg) |-> IF anchor_row[j] > 0 THEN Fx(-1) ELSE avg[j]]

(* the positions with a score above 0 alone *)
TopBookIndices_Positive(avg, order, top_n) ==
    LET Eligible(j) == avg[j] > 0
    IN  Slice(SelectSeq(Reverse(order), Eligible), 0, top_n)

(* the eligible positions without the cut to top_n *)
TopBookIndices_NoCut(avg, order, top_n) ==
    LET Eligible(j) == avg[j] >= 0
    IN  SelectSeq(Reverse(order), Eligible)

(* lines 261-264, for one outcome of the argsort *)
TopBookIndices(avg, order, top_n) ==
    LET Eligible(j) == avg[j] >= 0
    IN  Slice(SelectSeq(Reverse(order), Eligible), 0, top_n)

(* lines 272-277: the catalog rows whose ISBN is recommended, in catalog order *)
RecommendedBooks(books, recommended_isbns) ==
    LET Wanted(b) == b.ISBN \in Range(recommended_isbns)
    IN  SelectSeq(books, Wanted)

(* lines 280-285 *)
WithPredictedRating(recommended_books, columns, avg) ==
    [n \in 1..Len(recommended_books) |->
        [ISBN |-> recommended_books[n].ISBN,
         Title |-> recommended_books[n].Title,
         Predicted |-> avg[IndexOf(columns, recommended_books[n].ISBN)]]]

(* the rows left in catalog order *)
SortValues_Unsorted(rows) == {rows}

(* sort_values("Predicted-Rating", ascending=False): every descending order
   of the rows is a possible outcome *)
SortValues(rows) ==
    {[n \in 1..Len(rows) |-> rows[p[n]]] :
        p \in {o \in Permutations(1..Len(rows)) :
                 \A i, j \in 1..Len(rows) :
                     i < j => rows[o[i]].Predicted >= rows[o[j]].Predicted}}

(***************************************************************************)
(* State: the module globals of recommendation_service.py, the threads     *)
(* running load_recommendation_data and get_book_recommendations with      *)
(* their local variables, and the history needed to state the properties.  *)
(***************************************************************************)
VARIABLES
    books_data,          \* _books_data
    ratings_data,        \* _ratings_data
    users_data,          \* _users_data
    merged_df_filtered,  \* _merged_df_filtered
    user_book_matrix,    \* _user_book_matrix
    ratings_matrix,      \* _ratings_matrix
    user_means,          \* _user_means
    user_similarity,     \* _user_similarity
    build,               \* per thread: position and locals of load_recommendation_data
    query,               \* per thread: position and locals of get_book_recommendations
    nbuilds,             \* calls of load_recommendation_data so far
    nqueries,            \* calls of get_book_recommendations so far
    completed,           \* history: the builds that returned True
    writer,              \* history: the build that last assigned each global
    user_ratings,        \* the rows of the table user_ratings
    next_rating_id,      \* the next value of the table's primary key
    request,             \* per thread: position and locals of a rating endpoint
    nrequests            \* calls of the rating endpoints so far

globals == <<books_data, ratings_data, users_data, merged_df_filtered,
             user_book_matrix, ratings_matrix, user_means, user_similarity>>

recommender == <<books_data, ratings_data, users_data, merged_df_filtered,
                 user_book_matrix, ratings_matrix, user_means, user_similarity,
                 build, query, nbuilds, nqueries, completed, writer>>

store == <<user_ratings, next_rating_id, request, nrequests>>

vars == <<recommender, store>>

Builders == {"b1", "b2"}
Queries == {"q1"}

(* the components of the engine snapshot the queries and the spec refer to *)
Published ==
    [books |-> books_data, ubm |-> user_book_matrix, rm |-> ratings_matrix,
     means |-> user_means, sim |-> user_similarity]

(* the bundle a build from the given files publishes when it runs alone *)
SnapshotOf(books_path, ratings_path, users_path, nrows) ==
    LET books == ReadCsv(BooksFiles, books_path, nrows)
        merged == MergeUsers(
                      MergeBooks(DropZeroRatings(ReadCsv(RatingsFiles, ratings_path, nrows)),
                                 books),
                      ReadCsv(UsersFiles, users_path, nrows))
        ubm == PivotTable(DensityFilter(merged))
        rm == ToNumpy(ubm)
        means == UserMeans(rm)
    IN  [books |-> Some(books), ubm |-> Some(ubm), rm |-> Some(rm),
         means |-> Some(means), sim |-> Some(UserSimilarity(rm, Normalize(rm, means)))]

NoPublished == [books |-> None, ubm |-> None, rm |-> None, means |-> None, sim |-> None]

IdleBuild ==
    [pc |-> "idle", id |-> 0, books_path |-> "", ratings_path |-> "",
     users_path |-> "", nrows |-> 0, merged_df |-> <<>>, normalized |-> <<>>,
     result |-> "none", start |-> NoPublished]

IdleQuery ==
    [pc |-> "idle", book_title |-> <<>>, k |-> 0, top_n |-> 0,
     target_isbn |-> 0, book_col_idx |-> 0, best_user_idx |-> 0,
     similarity_scores |-> <<>>, similar_users_indices |-> <<>>,
     weights |-> <<>>, avg_book_ratings |-> <<>>, top_book_indices |-> <<>>,
     recommended_isbns |-> <<>>, outcome |-> "none", result |-> <<>>,
     reads |-> {}, seen |-> NoPublished]

Requests == {"r1", "r2"}

IdleRequest ==
    [pc |-> "idle", op |-> "none", user_id |-> 0, book_id |-> 0, rating |-> 0,
     rating_id |-> 0, status |-> 0]

Init ==
    /\ books_data = None
    /\ ratings_data = None
    /\ users_data = None
    /\ merged_df_filtered = None
    /\ user_book_matrix = None
    /\ ratings_matrix = None
    /\ user_means = None
    /\ user_similarity = None
    /\ build = [b \in Builders |-> IdleBuild]
    /\ query = [q \in Queries |-> IdleQuery]
    /\ nbuilds = 0
    /\ nqueries = 0
    /\ completed = {}
    /\ writer = [g \in {"books", "ubm", "rm", "sim"} |-> 0]
    /\ user_ratings = {}
    /\ next_rating_id = 1
    /\ request = [r \in Requests |-> IdleRequest]
    /\ nrequests = 0

(***************************************************************************)
(* load_recommendation_data, one action per assignment to a global.        *)
(***************************************************************************)
BuildGoto(b, pc) == build' = [build EXCEPT ![b].pc = pc]

(* return False, from an early return or from the except clause *)
BuildFails(b) ==
    build' = [build EXCEPT ![b].pc = "idle", ![b].result = "False",
                           ![b].merged_df = <<>>, ![b].normalized = <<>>]

(* the call: load_recommendation_data(books_path, ratings_path, users_path, nrows) *)
BCall(b) ==
    /\ build[b].pc = "idle"
    /\ nbuilds < MaxBuilds
    /\ \E bp \in BooksPaths, rp \in RatingsPaths, up \in UsersPaths, n \in NRowsChoices :
           build' = [build EXCEPT ![b] =
                        [IdleBuild EXCEPT !.pc = "books", !.id = nbuilds + 1,
                                          !.books_path = bp, !.ratings_path = rp,
                                          !.users_path = up, !.nrows = n,
                                          !.start = Published]]
    /\ nbuilds' = nbuilds + 1
    /\ UNCHANGED <<globals, query, nqueries, completed, writer>>

(* line 43: _books_data = pd.read_csv(books_path, ...) *)
BBooks(b) ==
    /\ build[b].pc = "books"
    /\ IF FileExists(BooksFiles, build[b].books_path)
       THEN /\ books_data' = Some(ReadCsv(BooksFiles, build[b].books_path, build[b].nrows))
            /\ writer' = [writer EXCEPT !["books"] = build[b].id]
            /\ BuildGoto(b, "ratings")
       ELSE /\ BuildFails(b)
            /\ UNCHANGED <<books_data, writer>>
    /\ UNCHANGED <<ratings_data, users_data, merged_df_filtered, user_book_matrix,
                   ratings_matrix, user_means, user_similarity, query, nbuilds,
                   nqueries, completed>>

(* line 47: _ratings_data = pd.read_csv(ratings_path, ...) *)
BRatings(b) ==
    /\ build[b].pc = "ratings"
    /\ IF FileExists(RatingsFiles, build[b].ratings_path)
       THEN /\ ratings_data' = Some(ReadCsv(RatingsFiles, build[b].ratings_path, build[b].nrows))
            /\ BuildGoto(b, "users")
       ELSE /\ BuildFails(b)
            /\ UNCHANGED ratings_data
    /\ UNCHANGED <<books_data, users_data, merged_df_filtered, user_book_matrix,
                   ratings_matrix, user_means, user_similarity, query, nbuilds,
                   nqueries, completed, writer>>

(* line 51: _users_data = pd.read_csv(users_path, ...) *)
BUsers(b) ==
    /\ build[b].pc = "users"
    /\ IF FileExists(UsersFiles, build[b].users_path)
       THEN /\ users_data' = Some(ReadCsv(UsersFiles, build[b].users_path, build[b].nrows))
            /\ BuildGoto(b, "clean")
       ELSE /\ BuildFails(b)
            /\ UNCHANGED users_data
    /\ UNCHANGED <<books_data, ratings_data, merged_df_filtered, user_book_matrix,
                   ratings_matrix, user_means, user_similarity, query, nbuilds,
                   nqueries, completed, writer>>

(* line 59: _ratings_data = _ratings_data[_ratings_data["Book-Rating"] > 0] *)
BClean(b) ==
    /\ build[b].pc = "clean"
    /\ ratings_data' = Some(DropZeroRatings(Val(ratings_data)))
    /\ BuildGoto(b, "merge")
    /\ UNCHANGED <<books_data, users_data, merged_df_filtered, user_book_matrix,
                   ratings_matrix, user_means, user_similarity, query, nbuilds,
                   nqueries, completed, writer>>

(* lines 63-71: the two inner joins and the floor on the joined rows *)
BMerge(b) ==
    /\ build[b].pc = "merge"
    /\ LET merged_df == MergeUsers(MergeBooks(Val(ratings_data), Val(books_data)),
                                   Val(users_data))
       IN  IF TooFewRows(merged_df)
           THEN BuildFails(b)
           ELSE build' = [build EXCEPT ![b].pc = "filter", ![b].merged_df = merged_df]
    /\ UNCHANGED <<globals, query, nbuilds, nqueries, completed, writer>>

(* lines 77-88: _merged_df_filtered, the filter by user *)
BFilter(b) ==
    /\ build[b].pc = "filter"
    /\ merged_df_filtered' = Some(FilterUsers(build[b].merged_df))
    /\ BuildGoto(b, "filter_books")
    /\ UNCHANGED <<books_data, ratings_data, users_data, user_book_matrix,
                   ratings_matrix, user_means, user_similarity, query, nbuilds,
                   nqueries, completed, writer>>

(* lines 90-101: _merged_df_filtered, the filter by book *)
BFilterBooks(b) ==
    /\ build[b].pc = "filter_books"
    /\ merged_df_filtered' =
           Some(FilterBooks(Val(merged_df_filtered), build[b].merged_df))
    /\ BuildGoto(b, "floor")
    /\ UNCHANGED <<books_data, ratings_data, users_data, user_book_matrix,
                   ratings_matrix, user_means, user_similarity, query, nbuilds,
                   nqueries, completed, writer>>

(* lines 107-110: _merged_df_filtered, the fallback below 10 rows *)
BFloor(b) ==
    /\ build[b].pc = "floor"
    /\ merged_df_filtered' =
           Some(FloorFallback(Val(merged_df_filtered), build[b].merged_df))
    /\ BuildGoto(b, "pivot")
    /\ UNCHANGED <<books_data, ratings_data, users_data, user_book_matrix,
                   ratings_matrix, user_means, user_similarity, query, nbuilds,
                   nqueries, completed, writer>>

(* the rows of the pivot table in an order that is not fixed: ascending or
   descending user id *)
BPivot_AnyOrder(b) ==
    /\ build[b].pc = "pivot"
    /\ \E pivot \in {PivotTable(Val(merged_df_filtered))} :
       \E index_order \in {pivot.index, Reverse(pivot.index)} :
           user_book_matrix' =
               Some([index |-> index_order,
                     columns |-> pivot.columns,
                     values |-> [n \in 1..Len(index_order) |->
                                    pivot.values[IndexOf(pivot.index, index_order[n])]]])
    /\ writer' = [writer EXCEPT !["ubm"] = build[b].id]
    /\ BuildGoto(b, "numpy")
    /\ UNCHANGED <<books_data, ratings_data, users_data, merged_df_filtered,
                   ratings_matrix, user_means, user_similarity, query, nbuilds,
                   nqueries, completed>>

(* line 113: _user_book_matrix = _merged_df_filtered.pivot_table(...) *)
BPivot(b) ==
    /\ build[b].pc = "pivot"
    /\ user_book_matrix' = Some(PivotTable(Val(merged_df_filtered)))
    /\ writer' = [writer EXCEPT !["ubm"] = build[b].id]
    /\ BuildGoto(b, "numpy")
    /\ UNCHANGED <<books_data, ratings_data, users_data, merged_df_filtered,
                   ratings_matrix, user_means, user_similarity, query, nbuilds,
                   nqueries, completed>>

(* lines 122-127: _ratings_matrix = _user_book_matrix.to_numpy(), empty check *)
BNumpy(b) ==
    /\ build[b].pc = "numpy"
    /\ ratings_matrix' = Some(ToNumpy(Val(user_book_matrix)))
    /\ writer' = [writer EXCEPT !["rm"] = build[b].id]
    /\ IF MatrixEmpty(ToNumpy(Val(user_book_matrix)))
       THEN BuildFails(b)
       ELSE BuildGoto(b, "means")
    /\ UNCHANGED <<books_data, ratings_data, users_data, merged_df_filtered,
                   user_book_matrix, user_means, user_similarity, query, nbuilds,
                   nqueries, completed>>

(* lines 130-138: _user_means and the local ratings_matrix_normalized *)
BMeans(b) ==
    /\ build[b].pc = "means"
    /\ user_means' = Some(UserMeans(Val(ratings_matrix)))
    /\ build' = [build EXCEPT ![b].pc = "sim",
                              ![b].normalized =
                                  Normalize(Val(ratings_matrix), UserMeans(Val(ratings_matrix)))]
    /\ UNCHANGED <<books_data, ratings_data, users_data, merged_df_filtered,
                   user_book_matrix, ratings_matrix, user_similarity, query, nbuilds,
                   nqueries, completed, writer>>

(* lines 141-156: _user_similarity, return True *)
BSim(b) ==
    /\ build[b].pc = "sim"
    /\ user_similarity' = Some(UserSimilarity(Val(ratings_matrix), build[b].normalized))
    /\ writer' = [writer EXCEPT !["sim"] = build[b].id]
    /\ build' = [build EXCEPT ![b].pc = "idle", ![b].result = "True",
                              ![b].merged_df = <<>>, ![b].normalized = <<>>]
    /\ completed' = completed \cup {build[b].id}
    /\ UNCHANGED <<books_data, ratings_data, users_data, merged_df_filtered,
                   user_book_matrix, ratings_matrix, user_means, query, nbuilds,
                   nqueries>>

BuildStep(b) ==
    \/ BCall(b) \/ BBooks(b) \/ BRatings(b) \/ BUsers(b) \/ BClean(b) \/ BMerge(b)
    \/ BFilter(b) \/ BFilterBooks(b) \/ BFloor(b) \/ BPivot(b) \/ BNumpy(b) \/ BMeans(b) \/ BSim(b)

(***************************************************************************)
(* get_book_recommendations, one action per group of lines that reads the  *)
(* globals.  An exception raised inside the try block (indexing None, an   *)
(* index out of range, a label that is not a column) is caught at line 294 *)
(* and returned as the "Error generating recommendations" string.          *)
(***************************************************************************)
Titles == {<<"C">>, <<"b">>, <<"D">>, <<"Z">>}
Ks == {1, 2}
TopNs == {1, 2}

(* history: which build assigned the value the query has just read *)
ReadOf(g) == [g |-> g, by |-> writer[g], published |-> writer[g] \in completed]

Return(rec, outcome) == [rec EXCEPT !.pc = "idle", !.outcome = outcome]

QuerySet(q, rec) == query' = [query EXCEPT ![q] = rec]

(* the call: get_book_recommendations(book_title, k, top_n) *)
QCall(q) ==
    /\ query[q].pc = "idle"
    /\ nqueries < MaxQueries
    /\ \E t \in Titles, k \in Ks, n \in TopNs :
           QuerySet(q, [IdleQuery EXCEPT !.pc = "check", !.book_title = t,
                                         !.k = k, !.top_n = n])
    /\ nqueries' = nqueries + 1
    /\ UNCHANGED <<globals, build, nbuilds, completed, writer>>

(* lines 190-191 *)
QCheck(q) ==
    /\ query[q].pc = "check"
    /\ IF IsNone(user_book_matrix) \/ IsNone(books_data)
       THEN QuerySet(q, Return(query[q], "DataNotLoaded"))
       ELSE QuerySet(q, [query[q] EXCEPT !.pc = "title",
                                        !.reads = @ \cup {ReadOf("ubm"), ReadOf("books")}])
    /\ UNCHANGED <<globals, build, nbuilds, nqueries, completed, writer>>

(* lines 194-210 *)
QTitle(q) ==
    /\ query[q].pc = "title"
    /\ LET matching_books == MatchingBooks(Val(books_data), query[q].book_title)
           rec == [query[q] EXCEPT !.reads = @ \cup {ReadOf("books")},
                                   !.seen.books = books_data]
       IN  IF Len(matching_books) = 0
           THEN QuerySet(q, Return(rec, "NoMatchingTitle"))
           ELSE QuerySet(q, [rec EXCEPT !.pc = "col",
                                        !.target_isbn = TargetIsbn(matching_books)])
    /\ UNCHANGED <<globals, build, nbuilds, nqueries, completed, writer>>

(* lines 212-217 *)
QCol(q) ==
    /\ query[q].pc = "col"
    /\ LET columns == Val(user_book_matrix).columns
           rec == [query[q] EXCEPT !.reads = @ \cup {ReadOf("ubm")},
                                   !.seen.ubm = user_book_matrix]
       IN  IF query[q].target_isbn \notin Range(columns)
           THEN QuerySet(q, Return(rec, "ItemNotInMatrix"))
           ELSE QuerySet(q, [rec EXCEPT !.pc = "anchor",
                                        !.book_col_idx = IndexOf(columns, query[q].target_isbn)])
    /\ UNCHANGED <<globals, build, nbuilds, nqueries, completed, writer>>

(* lines 218-227 *)
QAnchor(q) ==
    /\ query[q].pc = "anchor"
    /\ IF IsNone(ratings_matrix)
       THEN QuerySet(q, Return(query[q], "Error"))
       ELSE LET m == Val(ratings_matrix)
                rec == [query[q] EXCEPT !.reads = @ \cup {ReadOf("rm")},
                                        !.seen.rm = ratings_matrix]
            IN  IF query[q].book_col_idx > NumCols(m)
                THEN QuerySet(q, Return(rec, "Error"))
                ELSE IF UsersWhoRated(m, query[q].book_col_idx) = {}
                THEN QuerySet(q, Return(rec, "NoUsersRatedItem"))
                ELSE QuerySet(q, [rec EXCEPT !.pc = "neigh",
                                             !.best_user_idx =
                                                 BestUserIdx(m, query[q].book_col_idx)])
    /\ UNCHANGED <<globals, build, nbuilds, nqueries, completed, writer>>

(* lines 229-243 *)
QNeigh(q) ==
    /\ query[q].pc = "neigh"
    /\ IF IsNone(user_similarity)
       THEN /\ QuerySet(q, Return(query[q], "Error"))
            /\ UNCHANGED user_similarity
       ELSE LET k == Min(query[q].k, Len(Val(user_book_matrix).index) - 1)
                rec == [query[q] EXCEPT !.reads = @ \cup {ReadOf("ubm"), ReadOf("sim")},
                                        !.seen.sim = user_similarity,
                                        !.k = k]
            IN  IF query[q].best_user_idx > Len(Val(user_similarity))
                THEN /\ QuerySet(q, Return(rec, "Error"))
                     /\ UNCHANGED user_similarity
                ELSE LET similarity_scores ==
                             ClipScores(Val(user_similarity)[query[q].best_user_idx])
                     IN  /\ \E descending \in ArgSortHeads(similarity_scores, k + 1) :
                                LET similar_users_indices ==
                                        SimilarUsers(similarity_scores, descending, k)
                                    rec2 == [rec EXCEPT
                                                !.similarity_scores = similarity_scores,
                                                !.similar_users_indices = similar_users_indices]
                                IN  IF Len(similar_users_indices) = 0
                                    THEN QuerySet(q, Return(rec2, "NoSimilarUsers"))
                                    ELSE QuerySet(q, [rec2 EXCEPT !.pc = "scores"])
                         /\ user_similarity' =
                                Some(SimilarityAfterClip(Val(user_similarity),
                                                         query[q].best_user_idx))
    /\ UNCHANGED <<books_data, ratings_data, users_data, merged_df_filtered,
                   user_book_matrix, ratings_matrix, user_means, build, nbuilds,
                   nqueries, completed, writer>>

(* lines 247-258 *)
QScores(q) ==
    /\ query[q].pc = "scores"
    /\ LET m == Val(ratings_matrix)
           rec == [query[q] EXCEPT !.reads = @ \cup {ReadOf("rm")},
                                   !.seen.rm = ratings_matrix]
           weights == Weights(query[q].similarity_scores, query[q].similar_users_indices)
       IN  IF \/ query[q].best_user_idx > NumRows(m)
              \/ \E n \in 1..Len(query[q].similar_users_indices) :
                     query[q].similar_users_indices[n] > NumRows(m)
           THEN QuerySet(q, Return(rec, "Error"))
           ELSE QuerySet(q, [rec EXCEPT
                    !.pc = "top",
                    !.weights = weights,
                    !.avg_book_ratings =
                        ExcludeRated(AvgBookRatings(m, query[q].similar_users_indices, weights),
                                     m[query[q].best_user_idx])])
    /\ UNCHANGED <<globals, build, nbuilds, nqueries, completed, writer>>

(* lines 260-269 *)
QTop(q) ==
    /\ query[q].pc = "top"
    /\ \E order \in ArgSorts(query[q].avg_book_ratings) :
           LET top_book_indices ==
                   TopBookIndices(query[q].avg_book_ratings, order, query[q].top_n)
               columns == Val(user_book_matrix).columns
               rec == [query[q] EXCEPT !.top_book_indices = top_book_indices]
               rec2 == [rec EXCEPT !.reads = @ \cup {ReadOf("ubm")},
                                   !.seen.ubm = user_book_matrix]
           IN  IF Len(top_book_indices) = 0
               THEN QuerySet(q, Return(rec, "NoUnratedCandidates"))
               ELSE IF \E n \in 1..Len(top_book_indices) : top_book_indices[n] > Len(columns)
               THEN QuerySet(q, Return(rec2, "Error"))
               ELSE QuerySet(q, [rec2 EXCEPT
                        !.pc = "details",
                        !.recommended_isbns =
                            [n \in 1..Len(top_book_indices) |-> columns[top_book_indices[n]]]])
    /\ UNCHANGED <<globals, build, nbuilds, nqueries, completed, writer>>

(* lines 271-292 *)
QDetails(q) ==
    /\ query[q].pc = "details"
    /\ LET recommended_books ==
               RecommendedBooks(Val(books_data), query[q].recommended_isbns)
           columns == Val(user_book_matrix).columns
           rec == [query[q] EXCEPT !.reads = @ \cup {ReadOf("books"), ReadOf("ubm")},
                                   !.seen.books = books_data,
                                   !.seen.ubm = user_book_matrix]
       IN  IF \E n \in 1..Len(recommended_books) :
                 \/ recommended_books[n].ISBN \notin Range(columns)
                 \/ IndexOf(columns, recommended_books[n].ISBN) > Len(query[q].avg_book_ratings)
           THEN QuerySet(q, Return(rec, "Error"))
           ELSE \E sorted \in SortValues(WithPredictedRating(recommended_books, columns,
                                                             query[q].avg_book_ratings)) :
                    QuerySet(q, [Return(rec, "List") EXCEPT !.result = sorted])
    /\ UNCHANGED <<globals, build, nbuilds, nqueries, completed, writer>>

QueryStep(q) ==
    \/ QCall(q) \/ QCheck(q) \/ QTitle(q) \/ QCol(q) \/ QAnchor(q) \/ QNeigh(q)
    \/ QScores(q) \/ QTop(q) \/ QDetails(q)

(***************************************************************************)
(* The rating endpoints of user_ratings.py.  Each request has a database   *)
(* session of its own and runs in a thread of the server's pool; every     *)
(* statement sees the rows committed before it.  The table user_ratings    *)
(* has the primary key id and no other unique constraint.                  *)
(***************************************************************************)
BookIds == {1}
RequestUsers == {1, 2}
RequestBooks == {1, 2}
RequestRatings == {5, 7}

UserRatingRow(id, user_id, book_id, rating) ==
    [id |-> id, user_id |-> user_id, book_id |-> book_id, rating |-> rating]

(* crud_user_rating.get_by_user_and_book: the rows of the pair *)
GetByUserAndBook(rows, user_id, book_id) ==
    {row \in rows : row.user_id = user_id /\ row.book_id = book_id}

(* CRUDBase.get: the rows of the primary key *)
GetRating(rows, id) == {row \in rows : row.id = id}

Respond(r, status) == request' = [request EXCEPT ![r].pc = "idle", ![r].status = status]

RequestGoto(r, pc) == request' = [request EXCEPT ![r].pc = pc]

(* a POST, PUT or DELETE request arrives *)
RCall(r) ==
    /\ request[r].pc = "idle"
    /\ nrequests < MaxRequests
    /\ \/ \E u \in RequestUsers, b \in RequestBooks, v \in RequestRatings :
              request' = [request EXCEPT ![r] =
                  [IdleRequest EXCEPT !.pc = "create_book", !.op = "create",
                                      !.user_id = u, !.book_id = b, !.rating = v]]
       \/ \E id \in 1..MaxRequests, v \in RequestRatings :
              request' = [request EXCEPT ![r] =
                  [IdleRequest EXCEPT !.pc = "update_get", !.op = "update",
                                      !.rating_id = id, !.rating = v]]
       \/ \E id \in 1..MaxRequests :
              request' = [request EXCEPT ![r] =
                  [IdleRequest EXCEPT !.pc = "delete_get", !.op = "delete",
                                      !.rating_id = id]]
    /\ nrequests' = nrequests + 1
    /\ UNCHANGED <<user_ratings, next_rating_id>>

(* create_rating, lines 32-34: crud_book.get *)
CreateBook(r) ==
    /\ request[r].pc = "create_book"
    /\ IF request[r].book_id \in BookIds
       THEN RequestGoto(r, "create_existing")
       ELSE Respond(r, 404)
    /\ UNCHANGED <<user_ratings, next_rating_id, nrequests>>

(* create_rating, lines 37-45: get_by_user_and_book *)
CreateExisting(r) ==
    /\ request[r].pc = "create_existing"
    /\ IF GetByUserAndBook(user_ratings, request[r].user_id, request[r].book_id) # {}
       THEN Respond(r, 400)
       ELSE RequestGoto(r, "create_insert")
    /\ UNCHANGED <<user_ratings, next_rating_id, nrequests>>

(* create_rating, lines 48-50: CRUDBase.create, db.add and db.commit *)
CreateInsert(r) ==
    /\ request[r].pc = "create_insert"
    /\ user_ratings' = user_ratings \cup
           {UserRatingRow(next_rating_id, request[r].user_id, request[r].book_id,
                          request[r].rating)}
    /\ next_rating_id' = next_rating_id + 1
    /\ request' = [request EXCEPT ![r].pc = "idle", ![r].status = 201,
                                  ![r].rating_id = next_rating_id]
    /\ UNCHANGED nrequests

(* update_rating, lines 127-129: crud_user_rating.get *)
UpdateGet(r) ==
    /\ request[r].pc = "update_get"
    /\ IF GetRating(user_ratings, request[r].rating_id) = {}
       THEN Respond(r, 404)
       ELSE RequestGoto(r, "update_commit")
    /\ UNCHANGED <<user_ratings, next_rating_id, nrequests>>

(* update_rating, lines 131-137: CRUDBase.update sets rating and updated_at
   of the row and commits; a row deleted in between makes the commit fail *)
UpdateCommit(r) ==
    /\ request[r].pc = "update_commit"
    /\ IF GetRating(user_ratings, request[r].rating_id) = {}
       THEN /\ Respond(r, 500)
            /\ UNCHANGED user_ratings
       ELSE /\ user_ratings' =
                   {IF row.id = request[r].rating_id
                    THEN [row EXCEPT !.rating = request[r].rating] ELSE row :
                       row \in user_ratings}
            /\ Respond(r, 200)
    /\ UNCHANGED <<next_rating_id, nrequests>>

(* delete_rating, lines 146-148: crud_user_rating.get *)
DeleteGet(r) ==
    /\ request[r].pc = "delete_get"
    /\ IF GetRating(user_ratings, request[r].rating_id) = {}
       THEN Respond(r, 404)
       ELSE RequestGoto(r, "delete_commit")
    /\ UNCHANGED <<user_ratings, next_rating_id, nrequests>>

(* delete_rating, lines 150-152: CRUDBase.delete finds the row in its
   session and deletes it; when the row was deleted in between, the DELETE
   matches no row, which the session reports as a warning or as an error *)
DeleteCommit(r) ==
    /\ request[r].pc = "delete_commit"
    /\ IF GetRating(user_ratings, request[r].rating_id) = {}
       THEN /\ \E status \in {204, 500} : Respond(r, status)
            /\ UNCHANGED user_ratings
       ELSE /\ user_ratings' = user_ratings \ GetRating(user_ratings, request[r].rating_id)
            /\ Respond(r, 204)
    /\ UNCHANGED <<next_rating_id, nrequests>>

RequestStep(r) ==
    \/ RCall(r) \/ CreateBook(r) \/ CreateExisting(r) \/ CreateInsert(r)
    \/ UpdateGet(r) \/ UpdateCommit(r) \/ DeleteGet(r) \/ DeleteCommit(r)

(***************************************************************************)
(* Three schedules of the calls of the recommender, one of the requests    *)
(* to the rating endpoints.                                                *)
(* Spec: the loader runs in the background, one call at a time, while the  *)
(*   request threads run queries; the threads interleave at every access   *)
(*   to a global.                                                          *)
(* SpecBuilds: two threads call the loader at overlapping times; a query   *)
(*   runs when no load is in progress.                                     *)
(* SpecSeq: every call runs to completion before the next call starts,     *)
(*   the two loader threads calling in turn.                               *)
(* SpecRatings: the requests to the rating endpoints interleave at every   *)
(*   statement sent to the database.                                       *)
(* Spec and SpecBuilds take the rating file of a call from ratings1,       *)
(* ratings2 and the missing file; SpecSeq takes it from all the files.     *)
(***************************************************************************)
NoBuildExcept(b) == \A o \in Builders \ {b} : build[o].pc = "idle"

NoQueryExcept(q) == \A o \in Queries \ {q} : query[o].pc = "idle"

NoBuild == \A o \in Builders : build[o].pc = "idle"

NoQuery == \A o \in Queries : query[o].pc = "idle"

(* the rating files on disk while calls overlap *)
OverlapRatingsPaths == {"", "ratings1", "ratings2", "missing"}

OverlapFiles(b) == build'[b].ratings_path \in OverlapRatingsPaths

Next ==
    \/ \E b \in Builders :
           NoBuildExcept(b) /\ BuildStep(b) /\ OverlapFiles(b) /\ UNCHANGED store
    \/ \E q \in Queries : QueryStep(q) /\ UNCHANGED store

Spec == Init /\ [][Next]_vars

NextBuilds ==
    \/ \E b \in Builders : NoQuery /\ BuildStep(b) /\ OverlapFiles(b) /\ UNCHANGED store
    \/ \E q \in Queries : NoBuild /\ NoQueryExcept(q) /\ QueryStep(q) /\ UNCHANGED store

SpecBuilds == Init /\ [][NextBuilds]_vars

(* the two loader threads take turns: b1 makes the first call *)
TurnOf(b) ==
    \/ build[b].pc # "idle"
    \/ b = (IF nbuilds % 2 = 0 THEN "b1" ELSE "b2")

NextSeq ==
    \/ \E b \in Builders :
           NoBuildExcept(b) /\ NoQuery /\ TurnOf(b) /\ BuildStep(b) /\ UNCHANGED store
    \/ \E q \in Queries : NoBuild /\ NoQueryExcept(q) /\ QueryStep(q) /\ UNCHANGED store

SpecSeq == Init /\ [][NextSeq]_vars

NextRatings == \E r \in Requests : RequestStep(r) /\ UNCHANGED recommender

SpecRatings == Init /\ [][NextRatings]_vars

(***************************************************************************)
(* Properties.                                                             *)
(***************************************************************************)
Returned(q) == query[q].pc = "idle" /\ query[q].outcome # "none"

ReturnedList(q) == Returned(q) /\ query[q].outcome = "List"

InProgress == {b \in Builders : build[b].pc # "idle"}

(* C1: every value of a global that one query reads was assigned by one and
   the same build, and that build had completed when the value was read: a
   query never sees a mix of two builds or a half-built bundle. *)
QueryReadsOneCompletedBuild ==
    \A q \in Queries :
        \A r1, r2 \in query[q].reads : r1.by = r2.by /\ r1.published

(* C2: after a build has returned False, the catalog, the pivot table, the
   rating matrix, the user means and the similarity matrix are what they
   were when that build was called (a snapshot had been published then). *)
FailedBuildKeepsSnapshot ==
    \A b \in Builders :
        (/\ build[b].pc = "idle"
         /\ build[b].result = "False"
         /\ build[b].id = nbuilds
         /\ completed # {})
        => Published = build[b].start

(* C3: a query that returns while no build has yet returned True returns
   DataNotLoaded. *)
NotLoadedUntilFirstBuild ==
    [][\A q \in Queries :
          (completed = {} /\ query[q].pc # "idle" /\ query'[q].pc = "idle")
          => query'[q].outcome = "DataNotLoaded"]_vars

(* C4: at most one build is in progress at any time, and when two builds
   have both returned True the published bundle is the complete result of
   one of them. *)
BuildsSerialized ==
    /\ Cardinality(InProgress) <= 1
    /\ (InProgress = {} /\ \A b \in Builders : build[b].result = "True")
       => \E b \in Builders :
              Published = SnapshotOf(build[b].books_path, build[b].ratings_path,
                                     build[b].users_path, build[b].nrows)

(* C5: a query returns a list or one of the six enumerated failures, never
   the unclassified error string. *)
OutcomeClassified ==
    \A q \in Queries :
        query[q].outcome \in {"none", "List", "DataNotLoaded", "NoMatchingTitle",
                              "ItemNotInMatrix", "NoUsersRatedItem", "NoSimilarUsers",
                              "NoUnratedCandidates"}

(* C6: no step of a query changes any of the globals. *)
QueryLeavesStateUnchanged == [][query' # query => UNCHANGED globals]_vars

QueryReturnedList == \E q \in Queries : ReturnedList(q) /\ Len(query[q].result) > 0

(* C7: no returned item has a nonzero rating in the anchor's row of the
   rating matrix, and the queried item is not returned. *)
NoRatedItemReturned ==
    \A q \in Queries :
        ReturnedList(q) =>
            \A n \in 1..Len(query[q].result) :
                LET columns == Val(query[q].seen.ubm).columns
                    isbn == query[q].result[n].ISBN
                IN  /\ isbn \in Range(columns)
                    /\ Val(query[q].seen.rm)[query[q].best_user_idx][IndexOf(columns, isbn)] = 0
                    /\ isbn # query[q].target_isbn

(* a list was returned by a query whose neighbors had rated an item that the
   anchor had rated too *)
RatedItemWasCandidate ==
    \E q \in Queries :
        /\ ReturnedList(q)
        /\ Len(query[q].result) > 0
        /\ \E j \in 1..Len(query[q].avg_book_ratings) :
               /\ Val(query[q].seen.rm)[query[q].best_user_idx][j] > 0
               /\ \E n \in 1..Len(query[q].similar_users_indices) :
                      Val(query[q].seen.rm)[query[q].similar_users_indices[n]][j] > 0

(* C8: a returned list has at most top_n entries. *)
AtMostTopN ==
    \A q \in Queries : ReturnedList(q) => Len(query[q].result) <= query[q].top_n

(* a list was cut: more items were eligible than top_n *)
ListWasCut ==
    \E q \in Queries :
        /\ ReturnedList(q)
        /\ Len(query[q].result) = query[q].top_n
        /\ Cardinality({j \in 1..Len(query[q].avg_book_ratings) :
                           query[q].avg_book_ratings[j] >= 0}) > query[q].top_n

(* the weighted sum of the neighbors' raw ratings of one item *)
ExpectedScore(q, isbn) ==
    LET j == IndexOf(Val(query[q].seen.ubm).columns, isbn)
    IN  SumSeq([n \in 1..Len(query[q].similar_users_indices) |->
                   (Val(query[q].seen.rm)[query[q].similar_users_indices[n]][j]
                        * query[q].weights[n]) \div Scale])

(* C9: the scores of a returned list do not increase from one entry to the
   next, and each entry carries the predicted score of its own item. *)
ScoresDescendAndBelong ==
    \A q \in Queries :
        ReturnedList(q) =>
            /\ \A n \in 1..(Len(query[q].result) - 1) :
                   query[q].result[n].Predicted >= query[q].result[n + 1].Predicted
            /\ \A n \in 1..Len(query[q].result) :
                   query[q].result[n].Predicted = ExpectedScore(q, query[q].result[n].ISBN)

(* a list of two items with different scores whose catalog order is the
   reverse of its rank order *)
ListWasReordered ==
    \E q \in Queries :
        /\ ReturnedList(q)
        /\ Len(query[q].result) = 2
        /\ query[q].result[1].Predicted > query[q].result[2].Predicted
        /\ LET books == Val(query[q].seen.books)
               Pos(isbn) == CHOOSE i \in 1..Len(books) : books[i].ISBN = isbn
           IN  Pos(query[q].result[1].ISBN) > Pos(query[q].result[2].ISBN)

(* the query of title "C" with k = 2 on the three-user scenario *)
ScenarioQuery(q) ==
    /\ Returned(q)
    /\ query[q].book_title = <<"C">>
    /\ query[q].k = 2
    /\ query[q].seen.books = Some(BooksFiles.books1)
    /\ query[q].seen.rm = Some(<< <<Fx(8), Fx(6), 0>>,
                                  <<Fx(9), Fx(7), Fx(5)>>,
                                  <<0, Fx(4), Fx(9)>> >>)

(* C10: on the scenario, the query of "C" with k = 2 takes U3 (row 3) as
   anchor, keeps U1 (row 1) alone as neighbor with weight 1 and returns
   item A (ISBN 1) alone, with predicted score 8. *)
ScenarioResult ==
    \A q \in Queries :
        ScenarioQuery(q) =>
            /\ query[q].best_user_idx = 3
            /\ query[q].similar_users_indices = <<1>>
            /\ query[q].weights = <<Fx(1)>>
            /\ query[q].outcome = "List"
            /\ query[q].result = << [ISBN |-> 1, Title |-> <<"A">>, Predicted |-> Fx(8)] >>

ScenarioQueried == \E q \in Queries : ScenarioQuery(q)

(* the query text, letter case apart, is a run of consecutive characters of
   the title *)
IsSubstring(title, book_title) ==
    \E off \in 0..(Len(title) - Len(book_title)) :
        SubSeq(Lower(title), off + 1, off + Len(book_title)) = Lower(book_title)

(* the catalog rows, in catalog order, whose title holds the query text *)
MatchPositions(q) ==
    {i \in 1..Len(Val(query[q].seen.books)) :
        IsSubstring(Val(query[q].seen.books)[i].Title, query[q].book_title)}

(* the query found the globals loaded and went on to read the catalog *)
FoundLoaded(q) == Returned(q) /\ ~IsNone(query[q].seen.books)

(* C11: a query that finds a snapshot loaded and whose text is in no title
   of the catalog returns NoMatchingTitle, whatever the matrix holds. *)
NoMatchGivesNoMatchingTitle ==
    \A q \in Queries :
        (FoundLoaded(q) /\ MatchPositions(q) = {})
        => query[q].outcome = "NoMatchingTitle"

(* a query of a text that is in no title has returned *)
UnknownTitleQueried ==
    \E q \in Queries :
        /\ FoundLoaded(q)
        /\ MatchPositions(q) = {}
        /\ query[q].book_title = <<"Z">>

(* C12: when the first catalog row whose title holds the query text has an
   ISBN that is no column of the pivot table, the query returns
   ItemNotInMatrix, also when a later matching row has a column. *)
FirstMatchDecides ==
    \A q \in Queries :
        (/\ FoundLoaded(q)
         /\ ~IsNone(query[q].seen.ubm)
         /\ \E i \in MatchPositions(q) :
                /\ \A j \in MatchPositions(q) : i <= j
                /\ Val(query[q].seen.books)[i].ISBN
                       \notin Range(Val(query[q].seen.ubm).columns))
        => query[q].outcome = "ItemNotInMatrix"

(* the first matching row had no column and a later matching row had one *)
LaterMatchHadColumn ==
    \E q \in Queries :
        /\ FoundLoaded(q)
        /\ ~IsNone(query[q].seen.ubm)
        /\ \E i, l \in MatchPositions(q) :
               /\ \A j \in MatchPositions(q) : i <= j
               /\ i < l
               /\ Val(query[q].seen.books)[i].ISBN
                      \notin Range(Val(query[q].seen.ubm).columns)
               /\ Val(query[q].seen.books)[l].ISBN
                      \in Range(Val(query[q].seen.ubm).columns)

(* the build has returned and its three files exist *)
BuildReturned(b) ==
    /\ build[b].pc = "idle"
    /\ build[b].result # "none"
    /\ build[b].books_path \in DOMAIN BooksFiles
    /\ build[b].ratings_path \in DOMAIN RatingsFiles
    /\ build[b].users_path \in DOMAIN UsersFiles

(* the number of joined rows of a build's files: the triples of a rating row
   with a positive rating, a catalog row of the same ISBN and a user row of
   the same user, each among the first nrows rows of its file *)
JoinedRows(b) ==
    LET books == BooksFiles[build[b].books_path]
        ratings == RatingsFiles[build[b].ratings_path]
        users == UsersFiles[build[b].users_path]
        First(file) == 1..Min(Len(file), build[b].nrows)
    IN  Cardinality({t \in First(ratings) \X First(books) \X First(users) :
                        /\ ratings[t[1]].Rating > 0
                        /\ books[t[2]].ISBN = ratings[t[1]].ISBN
                        /\ users[t[3]] = ratings[t[1]].User})

(* C13: a build whose files exist returns False, without having assigned the
   pivot table, the rating matrix or the similarity matrix, exactly when
   fewer than 10 joined rows are left; with 10 or more it returns True. *)
FailsExactlyBelowFloor ==
    \A b \in Builders :
        BuildReturned(b) =>
            /\ build[b].result = "False" <=> JoinedRows(b) < 10
            /\ build[b].result = "False" =>
                   /\ build[b].id \notin completed
                   /\ \A g \in {"ubm", "rm", "sim"} : writer[g] # build[b].id

(* one build has failed with fewer than 10 joined rows, another has
   succeeded with exactly 10 *)
FloorWasMet ==
    \E b1, b2 \in Builders :
        /\ BuildReturned(b1) /\ build[b1].result = "False"
        /\ JoinedRows(b1) > 0 /\ JoinedRows(b1) < 10
        /\ BuildReturned(b2) /\ build[b2].result = "True"
        /\ JoinedRows(b2) = 10

(* a snapshot is published and no build is in progress *)
SnapshotAtRest == NoBuild /\ completed # {}

(* C14: in a published snapshot the similarity of every user with itself is
   1.0 when the user's row of the rating matrix has a nonzero rating, also
   when all the ratings of the row are equal. *)
DiagonalIsOne ==
    SnapshotAtRest =>
        \A i \in 1..NumRows(Val(ratings_matrix)) :
            RatedCount(Val(ratings_matrix)[i]) > 0
            => Val(user_similarity)[i][i] = Fx(1)

(* C15: in a published snapshot the similarity matrix has as many rows as
   the rating matrix, each row has as many cells as there are rows, and the
   cell of users i and j equals the cell of users j and i. *)
SimilaritySquareSymmetric ==
    SnapshotAtRest =>
        LET sim == Val(user_similarity)
            n == NumRows(Val(ratings_matrix))
        IN  /\ Len(sim) = n
            /\ \A i \in 1..n : Len(sim[i]) = n
            /\ \A i, j \in 1..n : sim[i][j] = sim[j][i]

(* a published similarity matrix of three or more users with a positive and
   a negative cell off the diagonal *)
MixedSimilarityPublished ==
    /\ SnapshotAtRest
    /\ Len(Val(user_similarity)) >= 3
    /\ \E i, j \in 1..Len(Val(user_similarity)) :
           i # j /\ Val(user_similarity)[i][j] > 0
    /\ \E i, j \in 1..Len(Val(user_similarity)) :
           i # j /\ Val(user_similarity)[i][j] < 0

(* the query has computed the weights of a nonempty neighbor set *)
Weighted(q) == Len(query[q].weights) > 0

(* the largest rating a neighbor of the query gave to the item of column j *)
LargestNeighborRating(q, j) ==
    LET rated == {Val(query[q].seen.rm)[query[q].similar_users_indices[n]][j] :
                     n \in 1..Len(query[q].similar_users_indices)}
    IN  CHOOSE r \in rated : \A o \in rated : o <= r

(* the score of column j before the anchor's items are excluded *)
ScoreBeforeExclusion(q, j) ==
    SumSeq([n \in 1..Len(query[q].similar_users_indices) |->
               (Val(query[q].seen.rm)[query[q].similar_users_indices[n]][j]
                    * query[q].weights[n]) \div Scale])

(* C16: when the neighbor set is not empty every weight is greater than 0,
   the weights sum to 1 (to within one unit of the last digit per weight),
   and the score of every item before the exclusion lies between 0 and the
   largest rating a neighbor gave to the item; the scores the query keeps
   are these, but for the excluded items. *)
WeightsNormalized ==
    \A q \in Queries :
        Weighted(q) =>
            /\ Len(query[q].weights) = Len(query[q].similar_users_indices)
            /\ \A n \in 1..Len(query[q].weights) : query[q].weights[n] > 0
            /\ SumSeq(query[q].weights) <= Fx(1)
            /\ SumSeq(query[q].weights) > Fx(1) - Len(query[q].weights)
            /\ \A j \in 1..Len(query[q].avg_book_ratings) :
                   /\ 0 <= ScoreBeforeExclusion(q, j)
                   /\ ScoreBeforeExclusion(q, j) <= LargestNeighborRating(q, j)
                   /\ query[q].avg_book_ratings[j] \in {Fx(-1), ScoreBeforeExclusion(q, j)}

(* a query with two neighbors of different weights, one of which has rated
   an item the other has not *)
TwoNeighborsWeighted ==
    \E q \in Queries :
        /\ Returned(q)
        /\ Len(query[q].weights) = 2
        /\ query[q].weights[1] # query[q].weights[2]
        /\ \E j \in 1..Len(query[q].avg_book_ratings) :
               /\ ScoreBeforeExclusion(q, j) > 0
               /\ ScoreBeforeExclusion(q, j) < LargestNeighborRating(q, j)

(* builds b and o were called with the same files and the same nrows *)
SameSources(b, o) ==
    /\ build[b].books_path = build[o].books_path
    /\ build[b].ratings_path = build[o].ratings_path
    /\ build[b].users_path = build[o].users_path
    /\ build[b].nrows = build[o].nrows

(* build b is the latest call, build o the call before it, and both have
   returned True *)
BuiltTwice(b, o) ==
    /\ NoBuild
    /\ build[b].id = nbuilds /\ build[b].result = "True"
    /\ build[o].id = nbuilds - 1 /\ build[o].result = "True"
    /\ SameSources(b, o)

(* C17: a build from the same files and configuration as the successful
   build before it publishes the same snapshot again: the same catalog, the
   same pivot table with the same index and column order, the same rating
   matrix, user means and similarity matrix. *)
RebuildIsIdentical ==
    \A b, o \in Builders :
        BuiltTwice(b, o) => Published = build[b].start

(* the four-user data has been built twice in a row *)
RebuiltFourUsers ==
    \E b, o \in Builders :
        /\ BuiltTwice(b, o)
        /\ build[b].ratings_path = "ratings2"
        /\ Len(Val(user_similarity)) = 4

(* the query has chosen its neighbors *)
NeighborsChosen(q) == Len(query[q].similarity_scores) > 0

(* the sets of min(k, rowCount - 1) users other than the anchor that lead a
   ranking of these users by similarity, highest first; query[q].k holds
   min(k, rowCount - 1) once the neighbors are chosen *)
TopOthers(q) ==
    LET score == query[q].similarity_scores
        others == (1..Len(score)) \ {query[q].best_user_idx}
    IN  {top \in SUBSET others :
            /\ Cardinality(top) = Min(query[q].k, Cardinality(others))
            /\ \A t \in top : \A o \in others \ top : score[t] >= score[o]}

(* C18: the neighbor set is the users of similarity greater than 0 among the
   min(k, rowCount - 1) users other than the anchor that rank highest by
   similarity, and the anchor is not in it, also when another user is as
   similar to the anchor as the anchor itself or the anchor's similarity
   with itself is 0. *)
NeighborsAreTopOthers ==
    \A q \in Queries :
        NeighborsChosen(q) =>
            /\ query[q].best_user_idx \notin Range(query[q].similar_users_indices)
            /\ \E top \in TopOthers(q) :
                   Range(query[q].similar_users_indices)
                       = {t \in top : query[q].similarity_scores[t] > 0}

(* the query has chosen its anchor *)
AnchorChosen(q) == query[q].best_user_idx > 0

(* the rating of the queried item in row i of the matrix the query read *)
RatingOfTarget(q, i) == Val(query[q].seen.rm)[i][query[q].book_col_idx]

(* C19: the anchor has a nonzero rating of the queried item, no user has a
   higher one, and every user of a lower row index has a lower one: of the
   users sharing the highest rating the one of the lowest row index is
   taken. *)
AnchorIsFirstTopRater ==
    \A q \in Queries :
        AnchorChosen(q) =>
            /\ RatingOfTarget(q, query[q].best_user_idx) > 0
            /\ \A i \in 1..NumRows(Val(query[q].seen.rm)) :
                   /\ RatingOfTarget(q, i) <= RatingOfTarget(q, query[q].best_user_idx)
                   /\ i < query[q].best_user_idx
                      => RatingOfTarget(q, i) < RatingOfTarget(q, query[q].best_user_idx)

(* an anchor was chosen where a user of a higher row index has the same
   rating of the queried item and a user of a lower rating comes between *)
TopRatingWasShared ==
    \E q \in Queries :
        /\ AnchorChosen(q)
        /\ \E i, l \in 1..NumRows(Val(query[q].seen.rm)) :
               /\ query[q].best_user_idx < l /\ l < i
               /\ RatingOfTarget(q, l) < RatingOfTarget(q, i)
               /\ RatingOfTarget(q, i) = RatingOfTarget(q, query[q].best_user_idx)

(* the column of an ISBN in the pivot table the query read *)
ColumnOf(q, isbn) == IndexOf(Val(query[q].seen.ubm).columns, isbn)

(* C20: of eligible items with the same predicted score the one of the lower
   column index ranks first: in the returned list it stands before the
   other, and an item cut off by top_n has no lower column index than a
   returned item of the same score. *)
TiesByColumnIndex ==
    \A q \in Queries :
        ReturnedList(q) =>
            /\ \A n \in 1..(Len(query[q].result) - 1) :
                   query[q].result[n].Predicted = query[q].result[n + 1].Predicted
                   => ColumnOf(q, query[q].result[n].ISBN)
                          < ColumnOf(q, query[q].result[n + 1].ISBN)
            /\ \A n \in 1..Len(query[q].result) :
                   \A j \in 1..Len(query[q].avg_book_ratings) :
                       (/\ query[q].avg_book_ratings[j] = query[q].result[n].Predicted
                        /\ \A l \in 1..Len(query[q].result) :
                               ColumnOf(q, query[q].result[l].ISBN) # j)
                       => ColumnOf(q, query[q].result[n].ISBN) < j

(* the rows of the filtered joined data set of one user and one ISBN *)
JoinedRowsOf(u, isbn) ==
    {n \in 1..Len(Val(merged_df_filtered)) :
        /\ Val(merged_df_filtered)[n].User = u
        /\ Val(merged_df_filtered)[n].ISBN = isbn}

(* C21: in a published snapshot the cell of a user and an item with no
   joined row is 0, and the cell of a user and an item with joined rows
   holds the rating of the last of these rows. *)
CellIsLastRating ==
    SnapshotAtRest =>
        LET ubm == Val(user_book_matrix)
        IN  \A i \in 1..Len(ubm.index) : \A j \in 1..Len(ubm.columns) :
                LET rows == JoinedRowsOf(ubm.index[i], ubm.columns[j])
                    last == CHOOSE n \in rows : \A o \in rows : o <= n
                IN  Val(ratings_matrix)[i][j] =
                        IF rows = {} THEN 0
                        ELSE Fx(Val(merged_df_filtered)[last].Rating)

(* the row of the filtered joined data set where a user, an ISBN is first
   seen *)
FirstRowOfUser(u) ==
    CHOOSE n \in 1..Len(Val(merged_df_filtered)) :
        /\ Val(merged_df_filtered)[n].User = u
        /\ \A o \in 1..(n - 1) : Val(merged_df_filtered)[o].User # u

FirstRowOfIsbn(isbn) ==
    CHOOSE n \in 1..Len(Val(merged_df_filtered)) :
        /\ Val(merged_df_filtered)[n].ISBN = isbn
        /\ \A o \in 1..(n - 1) : Val(merged_df_filtered)[o].ISBN # isbn

(* C22: in a published snapshot the users of the rows and the ISBNs of the
   columns of the rating matrix stand in the order in which they are first
   seen in the joined data set. *)
IndexInFirstSeenOrder ==
    SnapshotAtRest =>
        LET ubm == Val(user_book_matrix)
        IN  /\ \A i, l \in 1..Len(ubm.index) :
                   i < l => FirstRowOfUser(ubm.index[i]) < FirstRowOfUser(ubm.index[l])
            /\ \A j, l \in 1..Len(ubm.columns) :
                   j < l => FirstRowOfIsbn(ubm.columns[j]) < FirstRowOfIsbn(ubm.columns[l])

(* the number of rows of a data set equal to row r *)
CountRow(df, r) == Cardinality({n \in 1..Len(df) : df[n] = r})

(* the users with two or more joined rows in the build of b *)
UsersMeetingMinimum(b) ==
    {u \in Users(build[b].merged_df) :
        Cardinality({n \in 1..Len(build[b].merged_df) :
                        build[b].merged_df[n].User = u}) >= 2}

(* C24: after the filter by user, the filtered data set holds the joined
   rows of the users with two or more joined rows, each as often as the
   joined set holds it, and no other row, when there is such a user; when
   there is none it is the whole joined set, and it still is when the
   matrix is built. *)
UserFilterKeepsFrequentUsers ==
    \A b \in Builders :
        /\ build[b].pc = "filter_books" =>
               IF UsersMeetingMinimum(b) = {}
               THEN merged_df_filtered = Some(build[b].merged_df)
               ELSE /\ \A n \in 1..Len(Val(merged_df_filtered)) :
                           Val(merged_df_filtered)[n].User \in UsersMeetingMinimum(b)
                    /\ \A n \in 1..Len(build[b].merged_df) :
                           build[b].merged_df[n].User \in UsersMeetingMinimum(b)
                           => CountRow(Val(merged_df_filtered), build[b].merged_df[n])
                                  = CountRow(build[b].merged_df, build[b].merged_df[n])
        /\ (build[b].pc = "pivot" /\ UsersMeetingMinimum(b) = {})
           => merged_df_filtered = Some(build[b].merged_df)

(* a build of ten users with one joined row each has returned True, and
   another build has just filtered out a user with one joined row *)
UserFilterActed ==
    \E b, o \in Builders :
        /\ BuildReturned(o) /\ build[o].result = "True" /\ JoinedRows(o) = 10
        /\ build[o].books_path = "books1" /\ build[o].ratings_path = "ratings3"
        /\ build[b].pc = "filter_books"
        /\ UsersMeetingMinimum(b) # {}
        /\ Users(build[b].merged_df) \ UsersMeetingMinimum(b) # {}
        /\ Len(Val(merged_df_filtered)) >= 10

(* C25: when fewer than 10 rows are left after the filters by user and by
   book, the matrix is built from the whole joined set, else from the rows
   left; the data set of a published matrix has 10 rows or more. *)
FloorFallsBackToJoined ==
    /\ [][\A b \in Builders :
             (build[b].pc = "floor" /\ build'[b].pc = "pivot") =>
                 /\ Len(Val(merged_df_filtered)) < 10
                    => merged_df_filtered' = Some(build[b].merged_df)
                 /\ Len(Val(merged_df_filtered)) >= 10
                    => merged_df_filtered' = merged_df_filtered]_vars
    /\ [](SnapshotAtRest => Len(Val(merged_df_filtered)) >= 10)

(* a matrix is about to be built from a joined set of which the filters had
   left fewer than 10 rows *)
FellBackToJoined ==
    \E b \in Builders :
        /\ build[b].pc = "pivot"
        /\ merged_df_filtered = Some(build[b].merged_df)
        /\ UsersMeetingMinimum(b) # {}
        /\ Cardinality({n \in 1..Len(build[b].merged_df) :
                           build[b].merged_df[n].User \in UsersMeetingMinimum(b)}) < 10

(* the first catalog row whose title holds the query text *)
FirstMatch(q) == CHOOSE i \in MatchPositions(q) : \A j \in MatchPositions(q) : i <= j

(* the later steps of the query work on the ISBN of the first matching row:
   the column looked up is the column of that ISBN and the anchor has rated
   it *)
UsesFirstMatch(q) ==
    /\ query[q].target_isbn = Val(query[q].seen.books)[FirstMatch(q)].ISBN
    /\ query[q].book_col_idx > 0
       => Val(query[q].seen.ubm).columns[query[q].book_col_idx] = query[q].target_isbn
    /\ AnchorChosen(q) => RatingOfTarget(q, query[q].best_user_idx) > 0
    /\ \A n \in 1..Len(query[q].result) : query[q].result[n].ISBN # query[q].target_isbn

(* C26: the query works on the first catalog row, in catalog order, whose
   title holds the query text, letter case apart, in all its later steps,
   and the catalog it searches is the catalog file of the build that built
   the pivot table it reads. *)
FirstMatchOfOwnCatalog ==
    \A q \in Queries :
        (FoundLoaded(q) /\ MatchPositions(q) # {}) =>
            /\ UsesFirstMatch(q)
            /\ \A r \in query[q].reads : \A b \in Builders :
                   (r.g = "ubm" /\ build[b].id = r.by)
                   => query[q].seen.books
                          = Some(ReadCsv(BooksFiles, build[b].books_path, build[b].nrows))

(* C27: in a published snapshot every row and every column of the rating
   matrix has a cell greater than 0, and no query returns
   NoUsersRatedItem. *)
NoEmptyRowOrColumn ==
    /\ SnapshotAtRest =>
           LET m == Val(ratings_matrix)
           IN  /\ \A i \in 1..NumRows(m) : \E j \in 1..NumCols(m) : m[i][j] > 0
               /\ \A j \in 1..NumCols(m) : \E i \in 1..NumRows(m) : m[i][j] > 0
    /\ \A q \in Queries : query[q].outcome # "NoUsersRatedItem"

(* the file of the published matrix rates a catalog item with 0 alone; the
   query of that item has found no column for it, and the query of another
   item has found its anchor *)
ZeroRatedItemQueried ==
    /\ SnapshotAtRest
    /\ \E b \in Builders :
           /\ build[b].id = writer["rm"]
           /\ FileExists(RatingsFiles, build[b].ratings_path)
           /\ \E n \in 1..Len(RatingsFiles[build[b].ratings_path]) :
                  LET row == RatingsFiles[build[b].ratings_path][n]
                  IN  /\ row.Rating = 0
                      /\ row.ISBN \in {Val(books_data)[i].ISBN : i \in 1..Len(Val(books_data))}
                      /\ row.ISBN \notin Range(Val(user_book_matrix).columns)
                      /\ \E q \in Queries :
                             /\ Returned(q)
                             /\ query[q].target_isbn = row.ISBN
                             /\ query[q].outcome = "ItemNotInMatrix"

(* C28: the table user_ratings holds at most one row for each pair of
   user_id and book_id, whatever the order in which the steps of create,
   update and delete requests run. *)
OneRatingPerUserAndBook ==
    \A a, b \in user_ratings :
        (a.user_id = b.user_id /\ a.book_id = b.book_id) => a.id = b.id

(* the rating matrix the query read has a single user row *)
SingleUserRow(q) ==
    /\ ~IsNone(query[q].seen.rm)
    /\ NumRows(Val(query[q].seen.rm)) = 1

(* C29: when the rating matrix of the snapshot has one user row, the
   similarity matrix is [[1.0]], and a query whose title resolved to a
   column of that matrix goes no further than the choice of the neighbors
   and returns NoSimilarUsers, for every k and top_n. *)
SingleUserGivesNoSimilarUsers ==
    /\ (SnapshotAtRest /\ ~IsNone(ratings_matrix) /\ NumRows(Val(ratings_matrix)) = 1)
           => user_similarity = Some(<< <<Fx(1)>> >>)
    /\ \A q \in Queries :
           (SingleUserRow(q) /\ query[q].book_col_idx > 0) =>
               \/ query[q].pc = "neigh"
               \/ query[q].pc = "idle" /\ query[q].outcome = "NoSimilarUsers"

SingleUserQueried ==
    \E q \in Queries :
        /\ SingleUserRow(q)
        /\ query[q].seen.sim = Some(<< <<Fx(1)>> >>)
        /\ query[q].k = 0
        /\ query[q].outcome = "NoSimilarUsers"

(* every global the query read was assigned by one build, which returned True *)
ConsistentSnapshot(q) ==
    \E id \in completed : \A r \in query[q].reads : r.by = id

(* the columns of the rating matrix the anchor has not rated *)
UnratedByAnchor(q) ==
    LET row == Val(query[q].seen.rm)[query[q].best_user_idx]
    IN  {j \in 1..Len(row) : row[j] = 0}

(* C30: a query on a consistent snapshot that found neighbors returns
   NoUnratedCandidates exactly when its anchor has rated every column;
   otherwise it returns a list of min(top_n, columns the anchor has not
   rated) rows, not empty, each the catalog record of a column the anchor
   has not rated. *)
ListOfUnratedColumns ==
    \A q \in Queries :
        (/\ ConsistentSnapshot(q)
         /\ query[q].pc = "idle"
         /\ Len(query[q].similar_users_indices) > 0) =>
            LET unrated == UnratedByAnchor(q)
                columns == Val(query[q].seen.ubm).columns
                books == Val(query[q].seen.books)
            IN  IF unrated = {}
                THEN query[q].outcome = "NoUnratedCandidates"
                ELSE /\ query[q].outcome = "List"
                     /\ Len(query[q].result) = Min(query[q].top_n, Cardinality(unrated))
                     /\ Len(query[q].result) > 0
                     /\ \A n \in 1..Len(query[q].result) :
                            /\ \E j \in unrated : columns[j] = query[q].result[n].ISBN
                            /\ \E i \in 1..Len(books) :
                                   /\ books[i].ISBN = query[q].result[n].ISBN
                                   /\ books[i].Title = query[q].result[n].Title

(* a list cut by the number of columns the anchor has not rated *)
FewerUnratedThanTopN ==
    \E q \in Queries :
        /\ ConsistentSnapshot(q)
        /\ query[q].outcome = "List"
        /\ Len(query[q].result) = Cardinality(UnratedByAnchor(q))
        /\ Len(query[q].result) < query[q].top_n

====
